---- MODULE Spec2Model ----
(***************************************************************************)
(* BizimTransfer MCP server: the tool layer (server.py), the API client    *)
(* (client.py) and the validators and formatters (utils.py).               *)
(*                                                                         *)
(* Text is a string; a character is a string of length one.                *)
(* An Optional[T] argument is << >> for None and <<v>> for a value v.      *)
(***************************************************************************)
EXTENDS Integers, Sequences, FiniteSets, TLC

(***************************************************************************)
(* Bounds of the model.                                                    *)
(***************************************************************************)
\* longest passenger_names / passenger_countries list handed to make_reservation
MaxPassengers == 2
\* the most legs of a search, options of a leg, records of a reservation list,
\* ways of a record, candidates of a place search and types of a place
MaxItems == 2
\* tool invocations the runtime may have in flight at once
NumInv == 2

None == << >>
Some(v) == <<v>>
IsNone(o) == o = << >>
\* Python truthiness of an Optional[str], Optional[int] and Optional[List]
TruthyStr(o) == o # << >> /\ o[1] # ""
TruthyInt(o) == o # << >> /\ o[1] # 0
TruthyList(o) == o # << >> /\ o[1] # << >>
\* `x or ""` for an Optional[str]
OrEmpty(o) == IF TruthyStr(o) THEN o[1] ELSE ""

(***************************************************************************)
(* Characters.                                                             *)
(***************************************************************************)
Digits == <<"0", "1", "2", "3", "4", "5", "6", "7", "8", "9">>
UpperLetters == <<"A", "B", "C", "D", "E", "F", "G", "H", "I", "J", "K", "L", "M",
                  "N", "O", "P", "Q", "R", "S", "T", "U", "V", "W", "X", "Y", "Z">>
LowerLetters == <<"a", "b", "c", "d", "e", "f", "g", "h", "i", "j", "k", "l", "m",
                  "n", "o", "p", "q", "r", "s", "t", "u", "v", "w", "x", "y", "z">>

IsDigit(c) == \E i \in 1..10 : Digits[i] = c
DigitVal(c) == (CHOOSE i \in 1..10 : Digits[i] = c) - 1
\* the character at position i, "" past either end
At(s, i) == IF i \in 1..Len(s) THEN SubSeq(s, i, i) ELSE ""
InRange(c, lo, hi) == IsDigit(c) /\ DigitVal(c) >= lo /\ DigitVal(c) <= hi

\* str.lower() and str.upper(), character by character
LowerChar(c) == IF \E i \in 1..26 : UpperLetters[i] = c
                THEN LowerLetters[CHOOSE i \in 1..26 : UpperLetters[i] = c]
                ELSE c
UpperChar(c) == IF \E i \in 1..26 : LowerLetters[i] = c
                THEN UpperLetters[CHOOSE i \in 1..26 : LowerLetters[i] = c]
                ELSE c
RECURSIVE Lower(_)
Lower(s) == IF s = "" THEN "" ELSE LowerChar(Head(s)) \o Lower(Tail(s))
RECURSIVE Upper(_)
Upper(s) == IF s = "" THEN "" ELSE UpperChar(Head(s)) \o Upper(Tail(s))

(***************************************************************************)
(* utils.py: validate_date and validate_time.  datetime.strptime matches   *)
(* the format's regular expression at the start of the string, takes the   *)
(* first alternative of each directive that lets the rest match, rejects   *)
(* unconverted trailing data, and then builds the date.                    *)
(*   %Y  \d\d\d\d                                                          *)
(*   %m  1[0-2]|0[1-9]|[1-9]                                               *)
(*   %d  3[0-1]|[1-2]\d|0[1-9]|[1-9]| [1-9]                                *)
(*   %H  2[0-3]|[0-1]\d|\d                                                 *)
(*   %M  [0-5]\d|\d                                                        *)
(***************************************************************************)
\* number of characters %m takes at p when "-" must follow; 0 if no match
MonthLen(s, p) ==
    LET two == \/ At(s, p) = "1" /\ InRange(At(s, p + 1), 0, 2)
               \/ At(s, p) = "0" /\ InRange(At(s, p + 1), 1, 9)
    IN  IF two /\ At(s, p + 2) = "-" THEN 2
        ELSE IF InRange(At(s, p), 1, 9) /\ At(s, p + 1) = "-" THEN 1
        ELSE 0

\* number of characters %d takes at p at the end of the format; 0 if no match
DayLen(s, p) ==
    IF \/ At(s, p) = "3" /\ InRange(At(s, p + 1), 0, 1)
       \/ InRange(At(s, p), 1, 2) /\ IsDigit(At(s, p + 1))
       \/ At(s, p) = "0" /\ InRange(At(s, p + 1), 1, 9)
    THEN 2
    ELSE IF InRange(At(s, p), 1, 9) THEN 1
    ELSE IF At(s, p) = " " /\ InRange(At(s, p + 1), 1, 9) THEN 2
    ELSE 0

\* int() of the digits of s[p..p+n-1], blanks skipped
NumAt(s, p, n) ==
    IF n = 1 THEN DigitVal(At(s, p))
    ELSE IF At(s, p) = " " THEN DigitVal(At(s, p + 1))
    ELSE 10 * DigitVal(At(s, p)) + DigitVal(At(s, p + 1))

IsLeap(y) == (y % 4 = 0 /\ y % 100 # 0) \/ y % 400 = 0
DaysInMonth(y, m) ==
    IF m = 2 THEN (IF IsLeap(y) THEN 29 ELSE 28)
    ELSE IF m \in {4, 6, 9, 11} THEN 30 ELSE 31

\* datetime.strptime(s, "%Y-%m-%d") returns (TRUE) or raises ValueError (FALSE)
StrptimeDate(s) ==
    /\ \A i \in 1..4 : IsDigit(At(s, i))
    /\ At(s, 5) = "-"
    /\ MonthLen(s, 6) > 0
    /\ LET ml == MonthLen(s, 6)
           dp == 6 + ml + 1
           dl == DayLen(s, dp)
       IN  /\ dl > 0
           /\ Len(s) = dp + dl - 1
           /\ LET y == 1000 * DigitVal(At(s, 1)) + 100 * DigitVal(At(s, 2))
                       + 10 * DigitVal(At(s, 3)) + DigitVal(At(s, 4))
                  m == NumAt(s, 6, ml)
                  d == NumAt(s, dp, dl)
              IN  y >= 1 /\ d <= DaysInMonth(y, m)

\* number of characters %H takes at 1 when ":" must follow; 0 if no match
HourLen(s) ==
    LET two == \/ At(s, 1) = "2" /\ InRange(At(s, 2), 0, 3)
               \/ InRange(At(s, 1), 0, 1) /\ IsDigit(At(s, 2))
    IN  IF two /\ At(s, 3) = ":" THEN 2
        ELSE IF IsDigit(At(s, 1)) /\ At(s, 2) = ":" THEN 1
        ELSE 0

\* number of characters %M takes at p at the end of the format; 0 if no match
MinuteLen(s, p) ==
    IF InRange(At(s, p), 0, 5) /\ IsDigit(At(s, p + 1)) THEN 2
    ELSE IF IsDigit(At(s, p)) THEN 1
    ELSE 0

\* datetime.strptime(s, "%H:%M") returns (TRUE) or raises ValueError (FALSE)
StrptimeTime(s) ==
    /\ HourLen(s) > 0
    /\ LET mp == HourLen(s) + 2
       IN  MinuteLen(s, mp) > 0 /\ Len(s) = mp + MinuteLen(s, mp) - 1

validate_date(date_str) == IF date_str = "" THEN TRUE ELSE StrptimeDate(date_str)
validate_time(time_str) == IF time_str = "" THEN TRUE ELSE StrptimeTime(time_str)

(***************************************************************************)
(* Python values met at run time.  A parsed JSON value carries its type t: *)
(* "str" (the text s), "int" (the number n), "null", "arr" (the sequence   *)
(* a) or "obj" (o, a function from the keys present to their values).      *)
(* The outcome of a call is a return with a text or a raise with the       *)
(* exception's class and message.                                          *)
(***************************************************************************)
JStr(s) == [t |-> "str", s |-> s]
JInt(n) == [t |-> "int", n |-> n]
JNull == [t |-> "null"]
JArr(s) == [t |-> "arr", a |-> s]
JObj(f) == [t |-> "obj", o |-> f]
\* {}: the object with no keys
EmptyObj == JObj([k \in {} |-> JNull])

Ret(text) == [kind |-> "return", cls |-> "", text |-> text]
Raise(cls, msg) == [kind |-> "raise", cls |-> cls, text |-> msg]

\* dict.get(k, default)
Get(d, k, default) == IF k \in DOMAIN d.o THEN d.o[k] ELSE default
\* dict.get(k): None when the key is absent
GetN(d, k) == Get(d, k, JNull)
\* str(x) as an f-string renders it (containers are abbreviated)
PyStr(j) ==
    CASE j.t = "str" -> j.s
      [] j.t = "int" -> ToString(j.n)
      [] j.t = "null" -> "None"
      [] j.t = "arr" -> "[...]"
      [] j.t = "obj" -> "{...}"
\* bool(x)
JTruthy(j) ==
    CASE j.t = "str" -> j.s # ""
      [] j.t = "int" -> j.n # 0
      [] j.t = "null" -> FALSE
      [] j.t = "arr" -> j.a # << >>
      [] j.t = "obj" -> DOMAIN j.o # {}
\* the name Python gives the type in "'T' object has no attribute 'get'"
TypeName(j) ==
    CASE j.t = "str" -> "str"
      [] j.t = "int" -> "int"
      [] j.t = "null" -> "NoneType"
      [] j.t = "arr" -> "list"
      [] j.t = "obj" -> "dict"
NoAttr(j, attr) ==
    Raise("AttributeError", "'" \o TypeName(j) \o "' object has no attribute '" \o attr \o "'")

StartsWith(s, prefix) == Len(s) >= Len(prefix) /\ SubSeq(s, 1, Len(prefix)) = prefix

\* sep.join(lines)
RECURSIVE Join(_, _)
Join(lines, sep) ==
    IF lines = << >> THEN ""
    ELSE IF Len(lines) = 1 THEN lines[1]
    ELSE lines[1] \o sep \o Join(Tail(lines), sep)

\* the concatenation of a sequence of sequences
RECURSIVE Flatten(_)
Flatten(ss) == IF ss = << >> THEN << >> ELSE ss[1] \o Flatten(Tail(ss))

(***************************************************************************)
(* utils.py: the five formatters.  Each returns its text or raises.        *)
(***************************************************************************)
\* the status line with the description never looked up
StatusErrorNoDescription(result) == Ret("Error: Unknown error occurred")
\* the first two lines of the three status-checking formatters
StatusError(result) ==
    Ret("Error: " \o PyStr(Get(result, "description", JStr("Unknown error occurred"))))
IsSuccess(result) == GetN(result, "status") = JStr("success")

ExtraLine(extra, sym) ==
    "- " \o PyStr(GetN(extra, "UrunTanimi")) \o ": " \o PyStr(GetN(extra, "BirimFiyat"))
         \o " " \o sym
\* an option rendered without its booking reference line
OptionLinesNoSubroute(option, i, sym) ==
    << "### Option " \o ToString(i) \o ": " \o PyStr(GetN(option, "carname")),
       "Route ID: " \o PyStr(GetN(option, "routeid")),
       "" >>
OptionLines(option, i, sym) ==
    LET extras == Get(option, "extraurunler", JArr(<< >>))
    IN  << "### Option " \o ToString(i) \o ": " \o PyStr(GetN(option, "carname")),
           "Type: " \o PyStr(Get(option, "extramessage", JStr("Standard"))),
           "Pickup Time: " \o PyStr(GetN(option, "pickup")),
           "Duration: " \o PyStr(GetN(option, "duration")) \o " minutes",
           "Price: " \o PyStr(GetN(option, "price")) \o " " \o sym,
           "Max Passengers: " \o PyStr(GetN(option, "kisihakki")) \o " with "
               \o PyStr(GetN(option, "bavulhakki")) \o " luggage items" >>
        \o (IF JTruthy(extras)
            THEN <<"Available Extras:">>
                 \o [k \in 1..Len(extras.a) |-> ExtraLine(extras.a[k], sym)]
            ELSE << >>)
        \o << "Route ID: " \o PyStr(GetN(option, "routeid")),
              "Subroute ID: " \o PyStr(GetN(option, "subrouteid")) \o " (needed for booking)",
              "" >>
WayLines(way, sym) ==
    LET way_type == IF StartsWith(Get(way, "type", JStr("")).s, "yon1")
                    THEN "Outbound" ELSE "Return"
        options == Get(way, "list", JArr(<< >>)).a
    IN  << "## " \o way_type \o " Journey",
           "From: " \o PyStr(GetN(way, "from")),
           "To: " \o PyStr(GetN(way, "to")),
           "Date: " \o PyStr(GetN(way, "date")),
           "" >>
        \o Flatten([i \in 1..Len(options) |-> OptionLines(options[i], i, sym)])
TransferLines(result) ==
    LET sym == PyStr(Get(result, "currencysembol", JStr("")))
        ways == Get(result, "ways", JArr(<< >>)).a
    IN  << "Transfer options from " \o PyStr(GetN(result, "pickup")) \o " to "
               \o PyStr(GetN(result, "dropoff")),
           "Total passengers: " \o PyStr(GetN(result, "adult")) \o " adults, "
               \o PyStr(GetN(result, "child")) \o " children, "
               \o PyStr(GetN(result, "infant")) \o " infants",
           "",
           "Booking reference (UUID): " \o PyStr(GetN(result, "uuid")),
           "" >>
        \o Flatten([w \in 1..Len(ways) |-> WayLines(ways[w], sym)])
format_transfer_results(result) ==
    IF result.t # "obj" THEN NoAttr(result, "get")
    ELSE IF ~IsSuccess(result) THEN StatusError(result)
    ELSE Ret(Join(TransferLines(result), "\n"))

\* the banner's leading check-mark emoji and the arrow of the reservation list
\* are left out and written "->": the model's text is ASCII
format_reservation_results(result) ==
    IF result.t # "obj" THEN NoAttr(result, "get")
    ELSE IF ~IsSuccess(result) THEN StatusError(result)
    ELSE Ret(Join(<< "Reservation successfully created!",
                     "Reservation Number: " \o PyStr(GetN(result, "rezid")),
                     "",
                     "Please keep this reservation number for your records.",
                     "You should receive a confirmation email with your booking details." >>,
                  "\n"))

ResWayLines(way, j) ==
    << "- " \o (IF j = 1 THEN "Outbound" ELSE "Return") \o ": "
            \o PyStr(GetN(way, "pickupadres")) \o " -> " \o PyStr(GetN(way, "returnadres")),
       "  Date: " \o PyStr(GetN(way, "flightdate")) \o ", Pickup time: "
            \o PyStr(GetN(way, "pickuptime")),
       "  Vehicle: " \o PyStr(GetN(way, "car")) \o ", Duration: "
            \o PyStr(GetN(way, "duration")) \o " min" >>
    \o (IF JTruthy(GetN(way, "flightnumber"))
        THEN << "  Flight: " \o PyStr(GetN(way, "flightnumber")) \o ", Terminal: "
                    \o PyStr(GetN(way, "terminal")) >>
        ELSE << >>)
ReservationLines(res, i) ==
    LET ways == Get(res, "ways", JArr(<< >>)).a
        passengers == Get(res, "passangers", JArr(<< >>))
    IN  << "\n## Reservation " \o ToString(i),
           "Reservation Number: " \o PyStr(GetN(res, "reservationnumber")),
           "Customer: " \o PyStr(GetN(res, "customername")) \o " "
               \o PyStr(GetN(res, "customersurname")),
           "Contact: " \o PyStr(GetN(res, "customeremail")) \o ", "
               \o PyStr(GetN(res, "customertel")),
           "Passengers: " \o PyStr(GetN(res, "adult")) \o " adults, "
               \o PyStr(GetN(res, "child")) \o " children, "
               \o PyStr(GetN(res, "infant")) \o " infants",
           "Amount: " \o PyStr(GetN(res, "Amount")) \o " " \o PyStr(GetN(res, "currency")),
           "Status: " \o PyStr(GetN(res, "status")),
           "Payment: " \o PyStr(GetN(res, "paymenttype")),
           "Created: " \o PyStr(GetN(res, "createat")),
           "\nTransfers:" >>
        \o Flatten([j \in 1..Len(ways) |-> ResWayLines(ways[j], j)])
        \o (IF JTruthy(passengers)
            THEN <<"\nPassengers:">>
                 \o [k \in 1..Len(passengers.a) |->
                        "- " \o PyStr(GetN(passengers.a[k], "namesurname")) \o " ("
                             \o PyStr(GetN(passengers.a[k], "country")) \o ")"]
            ELSE << >>)
format_reservation_list(result) ==
    IF result.t # "obj" THEN NoAttr(result, "get")
    ELSE IF ~IsSuccess(result) THEN StatusError(result)
    ELSE LET reservations == Get(result, "list", JArr(<< >>))
         IN  IF ~JTruthy(reservations)
             THEN Ret("No reservations found matching your criteria.")
             ELSE Ret(Join(<<"Found " \o ToString(Len(reservations.a)) \o " reservation(s):">>
                           \o Flatten([i \in 1..Len(reservations.a) |->
                                          ReservationLines(reservations.a[i], i)]),
                           "\n"))

\* no status check: the falsy test, then one line per element
format_places_results(places) ==
    IF ~JTruthy(places) THEN Ret("No places found matching your query.")
    ELSE IF places.t = "int" THEN Raise("TypeError", "'int' object is not iterable")
    ELSE IF places.t # "arr" THEN Raise("AttributeError", "'str' object has no attribute 'get'")
    ELSE IF \E i \in 1..Len(places.a) : places.a[i].t # "obj"
         THEN NoAttr(places.a[CHOOSE i \in 1..Len(places.a) : places.a[i].t # "obj"], "get")
    ELSE Ret(Join(<<"Found locations:">>
                  \o [i \in 1..Len(places.a) |->
                         ToString(i) \o ". " \o PyStr(GetN(places.a[i], "description"))
                             \o " (ID: " \o PyStr(GetN(places.a[i], "place_id")) \o ")"],
                  "\n"))

\* no status check: labelled lines with "N/A" defaults
format_place_details(details) ==
    IF details.t # "obj" THEN NoAttr(details, "get")
    ELSE LET location == Get(Get(details, "geometry", EmptyObj), "location", EmptyObj)
             types == Get(details, "types", JArr(<< >>))
         IN  Ret(Join(<< "Location Details:",
                         "Name: " \o PyStr(Get(details, "name", JStr("N/A"))),
                         "Address: " \o PyStr(Get(details, "formatted_address", JStr("N/A"))) >>
                      \o (IF JTruthy(location)
                          THEN << "Latitude: " \o PyStr(Get(location, "lat", JStr("N/A"))),
                                  "Longitude: " \o PyStr(Get(location, "lng", JStr("N/A"))) >>
                          ELSE << >>)
                      \o (IF JTruthy(types)
                          THEN << "Type: " \o Join([k \in 1..Len(types.a) |-> types.a[k].s], ", ") >>
                          ELSE << >>),
                      "\n"))

(***************************************************************************)
(* utils.py: CURRENCY_MAP, and server.py line 114: the id of a currency    *)
(* code, 2 (EUR) for a code that is not listed.                            *)
(***************************************************************************)
CurrencyId(currency) ==
    LET c == Upper(currency)
    IN  CASE c = "TRY" -> 1
          [] c = "EUR" -> 2
          [] c = "USD" -> 3
          [] c = "GBP" -> 4
          [] c = "RUB" -> 6
          [] OTHER -> 2

(***************************************************************************)
(* server.py: the part of each tool that runs before its try block.  It    *)
(* yields the text of the first failing check, or "" when all pass.        *)
(* The ctx argument is "none" (ctx is None), "nolifespan" (a request       *)
(* context whose lifespan_context is None) or "ok" (the AppContext).       *)
(***************************************************************************)
\* the same checks with the presence test of the return date and time left out
ValidateSearchTransfersNoPresence(a) ==
    IF a.pickup_address = "" \/ a.dropoff_address = ""
    THEN "Error: Pickup and dropoff addresses are required"
    ELSE IF a.adults < 1
    THEN "Error: At least one adult passenger is required"
    ELSE IF ~validate_date(a.pickup_date)
    THEN "Error: Invalid pickup date format. Please use YYYY-MM-DD format"
    ELSE IF ~validate_time(a.pickup_time)
    THEN "Error: Invalid pickup time format. Please use HH:MM format (24h)"
    ELSE IF a.round_trip /\ ~validate_date(OrEmpty(a.return_date))
    THEN "Error: Invalid return date format. Please use YYYY-MM-DD format"
    ELSE IF a.round_trip /\ ~validate_time(OrEmpty(a.return_time))
    THEN "Error: Invalid return time format. Please use HH:MM format (24h)"
    ELSE ""

ValidateSearchTransfers(a) ==
    IF a.pickup_address = "" \/ a.dropoff_address = ""
    THEN "Error: Pickup and dropoff addresses are required"
    ELSE IF a.adults < 1
    THEN "Error: At least one adult passenger is required"
    ELSE IF ~validate_date(a.pickup_date)
    THEN "Error: Invalid pickup date format. Please use YYYY-MM-DD format"
    ELSE IF ~validate_time(a.pickup_time)
    THEN "Error: Invalid pickup time format. Please use HH:MM format (24h)"
    ELSE IF a.round_trip /\ (~TruthyStr(a.return_date) \/ ~TruthyStr(a.return_time))
    THEN "Error: Return date and time are required for round trips"
    ELSE IF a.round_trip /\ ~validate_date(a.return_date[1])
    THEN "Error: Invalid return date format. Please use YYYY-MM-DD format"
    ELSE IF a.round_trip /\ ~validate_time(a.return_time[1])
    THEN "Error: Invalid return time format. Please use HH:MM format (24h)"
    ELSE ""

\* the test that sends make_reservation down the explicit-passengers branch
UsesPassengerLists(a) == TruthyList(a.passenger_names) /\ TruthyList(a.passenger_countries)

ValidateMakeReservation(a) ==
    IF a.uuid = "" THEN "Error: UUID is required from the search results"
    ELSE IF a.first_name = "" \/ a.last_name = "" THEN "Error: Customer name is required"
    ELSE IF a.email = "" THEN "Error: Email address is required"
    ELSE IF a.phone = "" THEN "Error: Phone number is required"
    ELSE IF a.country_code = "" THEN "Error: Country code is required"
    ELSE IF a.outbound_subroute_id = 0 THEN "Error: Outbound subroute ID is required"
    ELSE IF /\ UsesPassengerLists(a)
            /\ Len(a.passenger_names[1]) # Len(a.passenger_countries[1])
    THEN "Error: Number of passenger names and countries must match"
    ELSE ""

\* transfer_ways: the outbound leg, then the return leg if one is given
TransferWays(a) ==
    << [subrouteid |-> a.outbound_subroute_id, flightnumber |-> OrEmpty(a.flight_number),
        terminal |-> OrEmpty(a.terminal), notes |-> OrEmpty(a.notes)] >>
    \o (IF TruthyInt(a.return_subroute_id)
        THEN << [subrouteid |-> a.return_subroute_id[1],
                 flightnumber |-> OrEmpty(a.return_flight_number),
                 terminal |-> OrEmpty(a.return_terminal),
                 notes |-> OrEmpty(a.return_notes)] >>
        ELSE << >>)

\* the passengers with the countries passed on as given, not lower-cased
PassengersNotLowered(a) ==
    IF TruthyList(a.passenger_names) /\ TruthyList(a.passenger_countries)
    THEN [k \in 1..Len(a.passenger_names[1]) |->
             [name |-> a.passenger_names[1][k], country |-> a.passenger_countries[1][k]]]
    ELSE << [name |-> a.first_name \o " " \o a.last_name, country |-> a.country_code] >>

\* passengers: zip(passenger_names, passenger_countries), or the customer alone
Passengers(a) ==
    IF UsesPassengerLists(a)
    THEN LET names == a.passenger_names[1]
             countries == a.passenger_countries[1]
             n == IF Len(names) < Len(countries) THEN Len(names) ELSE Len(countries)
         IN  [k \in 1..n |-> [name |-> names[k], country |-> Lower(countries[k])]]
    ELSE << [name |-> a.first_name \o " " \o a.last_name,
             country |-> Lower(a.country_code)] >>

DateQueries == {"createdate", "flightdate"}
\* the same checks with the two date tests joined by `and` in place of `or`
ValidateListReservationsBothBad(a) ==
    IF a.query_type \notin DateQueries \union {"reservationnumber"}
    THEN "Error: query_type must be 'createdate', 'flightdate', or 'reservationnumber'"
    ELSE IF a.query_type \in DateQueries
            /\ (~TruthyStr(a.start_date) \/ ~TruthyStr(a.end_date))
    THEN "Error: start_date and end_date are required for " \o a.query_type \o " queries"
    ELSE IF a.query_type \in DateQueries
            /\ (~validate_date(a.start_date[1]) /\ ~validate_date(a.end_date[1]))
    THEN "Error: Invalid date format. Please use YYYY-MM-DD format"
    ELSE IF a.query_type = "reservationnumber" /\ ~TruthyInt(a.reservation_number)
    THEN "Error: reservation_number is required for direct lookup"
    ELSE ""

ValidateListReservations(a) ==
    IF a.query_type \notin DateQueries \union {"reservationnumber"}
    THEN "Error: query_type must be 'createdate', 'flightdate', or 'reservationnumber'"
    ELSE IF a.query_type \in DateQueries
            /\ (~TruthyStr(a.start_date) \/ ~TruthyStr(a.end_date))
    THEN "Error: start_date and end_date are required for " \o a.query_type \o " queries"
    ELSE IF a.query_type \in DateQueries
            /\ (~validate_date(a.start_date[1]) \/ ~validate_date(a.end_date[1]))
    THEN "Error: Invalid date format. Please use YYYY-MM-DD format"
    ELSE IF a.query_type = "reservationnumber" /\ ~TruthyInt(a.reservation_number)
    THEN "Error: reservation_number is required for direct lookup"
    ELSE ""

ValidateSearchPlaces(a) ==
    IF a.query = "" THEN "Error: Search query is required"
    ELSE IF a.ctx # "ok" THEN "Error: Server configuration error - missing context"
    ELSE ""

ValidateGetPlaceDetails(a) ==
    IF a.place_id = "" THEN "Error: Place ID is required" ELSE ""

Validate(a) ==
    CASE a.tool = "search_transfers" -> ValidateSearchTransfers(a)
      [] a.tool = "make_reservation" -> ValidateMakeReservation(a)
      [] a.tool = "list_reservations" -> ValidateListReservations(a)
      [] a.tool = "search_places" -> ValidateSearchPlaces(a)
      [] a.tool = "get_place_details" -> ValidateGetPlaceDetails(a)

(***************************************************************************)
(* client.py: the request each client method builds.  A field that holds   *)
(* an Optional argument as it was passed keeps its Optional form.          *)
(***************************************************************************)
\* the /query request with the return date and time passed on as supplied
SearchTransfersRequestForwarding(a) ==
    [method |-> "POST", path |-> "/query",
     body |-> [pickup |-> a.pickup_address, pickuplat |-> a.pickup_lat,
               pickuplng |-> a.pickup_lng, dropoff |-> a.dropoff_address,
               dropofflat |-> a.dropoff_lat, dropofflng |-> a.dropoff_lng,
               adult |-> a.adults, child |-> a.children, infant |-> a.infants,
               pickupdate |-> a.pickup_date, pickuptime |-> a.pickup_time,
               dropoffdate |-> a.return_date,
               dropofftime |-> a.return_time,
               requesttype |-> IF a.round_trip THEN 2 ELSE 1,
               currencyid |-> CurrencyId(a.currency),
               language |-> a.language]]
SearchTransfersRequest(a) ==
    [method |-> "POST", path |-> "/query",
     body |-> [pickup |-> a.pickup_address, pickuplat |-> a.pickup_lat,
               pickuplng |-> a.pickup_lng, dropoff |-> a.dropoff_address,
               dropofflat |-> a.dropoff_lat, dropofflng |-> a.dropoff_lng,
               adult |-> a.adults, child |-> a.children, infant |-> a.infants,
               pickupdate |-> a.pickup_date, pickuptime |-> a.pickup_time,
               dropoffdate |-> IF a.round_trip THEN a.return_date ELSE Some(""),
               dropofftime |-> IF a.round_trip THEN a.return_time ELSE Some(""),
               requesttype |-> IF a.round_trip THEN 2 ELSE 1,
               currencyid |-> CurrencyId(a.currency),
               language |-> a.language]]

MakeReservationRequest(a) ==
    [method |-> "POST", path |-> "/reservation",
     body |-> [uuid |-> a.uuid, customername |-> a.first_name,
               customersurname |-> a.last_name, customeremail |-> a.email,
               customertelephone |-> a.phone, customercoutry |-> Lower(a.country_code),
               transferway |-> TransferWays(a), passangers |-> Passengers(a)]]

ListReservationsRequest(a) ==
    [method |-> "POST", path |-> "/list",
     body |-> IF a.query_type \in DateQueries
              THEN [querytype |-> a.query_type, start |-> a.start_date, end |-> a.end_date]
              ELSE [querytype |-> a.query_type, reservationnumber |-> a.reservation_number]]

SearchPlacesRequest(a) ==
    [method |-> "GET", path |-> "/places",
     body |-> [query |-> a.query, language |-> a.language]]

GetPlaceDetailsRequest(a) ==
    [method |-> "GET", path |-> "/places/detail",
     body |-> [place_id |-> a.place_id, language |-> a.language]]

RequestOf(a) ==
    CASE a.tool = "search_transfers" -> SearchTransfersRequest(a)
      [] a.tool = "make_reservation" -> MakeReservationRequest(a)
      [] a.tool = "list_reservations" -> ListReservationsRequest(a)
      [] a.tool = "search_places" -> SearchPlacesRequest(a)
      [] a.tool = "get_place_details" -> GetPlaceDetailsRequest(a)

(***************************************************************************)
(* client.py: what a client method does with the upstream's reply:         *)
(* the post/get raises on a transport failure, raise_for_status raises on  *)
(* a status outside 200..299, response.json() raises on a body that is not *)
(* JSON, and otherwise the parsed value is returned.                       *)
(***************************************************************************)
TransportFailure == [transport |-> FALSE, status |-> 0, parses |-> FALSE, value |-> JNull]
HttpReply(status, value) ==
    [transport |-> TRUE, status |-> status, parses |-> TRUE, value |-> value]
MalformedReply(status) ==
    [transport |-> TRUE, status |-> status, parses |-> FALSE, value |-> JNull]

IsSuccessStatus(status) == status >= 200 /\ status <= 299

\* [kind |-> "value", value |-> json] or a raise
ClientReceive(reply) ==
    IF ~reply.transport
    THEN Raise("ConnectError", "All connection attempts failed")
    ELSE IF ~IsSuccessStatus(reply.status)
    THEN Raise("HTTPStatusError", "Error response " \o ToString(reply.status))
    ELSE IF ~reply.parses
    THEN Raise("JSONDecodeError", "Expecting value: line 1 column 1 (char 0)")
    ELSE [kind |-> "value", value |-> reply.value]

(***************************************************************************)
(* server.py: the try block of each tool.                                  *)
(***************************************************************************)
\* ctx.request_context.lifespan_context and client.client.<method>
ContextFault(ctx) ==
    CASE ctx = "none" ->
            Raise("AttributeError", "'NoneType' object has no attribute 'request_context'")
      [] ctx = "nolifespan" ->
            Raise("AttributeError", "'NoneType' object has no attribute 'client'")
      [] ctx = "ok" -> Ret("")

Format(tool, value) ==
    CASE tool = "search_transfers" -> format_transfer_results(value)
      [] tool = "make_reservation" -> format_reservation_results(value)
      [] tool = "list_reservations" -> format_reservation_list(value)
      [] tool = "search_places" -> format_places_results(value)
      [] tool = "get_place_details" -> format_place_details(value)

\* the words after "Error " in each tool's except clause
ActionOf(tool) ==
    CASE tool = "search_transfers" -> "searching for transfers"
      [] tool = "make_reservation" -> "making reservation"
      [] tool = "list_reservations" -> "listing reservations"
      [] tool = "search_places" -> "searching places"
      [] tool = "get_place_details" -> "getting place details"

\* the exception classes raised in the model; all derive from Exception
ExceptionClasses ==
    {"AttributeError", "TypeError", "ConnectError", "HTTPStatusError", "JSONDecodeError",
     "RuntimeError"}
HttpxErrors == {"ConnectError", "HTTPStatusError"}

\* `except Exception as e`
CatchesHttpxOnly(exc) == exc.cls \in HttpxErrors
Catches(exc) == exc.cls \in ExceptionClasses

\* try: ... except Exception as e: return f"Error <action>: {str(e)}"
Guarded(tool, outcome) ==
    IF outcome.kind = "raise" /\ Catches(outcome)
    THEN Ret("Error " \o ActionOf(tool) \o ": " \o outcome.text)
    ELSE outcome

\* the rest of the try block once the awaited client call has ended
AfterAwait(tool, reply) ==
    LET got == ClientReceive(reply)
    IN  Guarded(tool, IF got.kind = "raise" THEN got ELSE Format(tool, got.value))

(***************************************************************************)
(* The inputs: the arguments a caller may pass to each tool and the        *)
(* replies the upstream service may give.                                  *)
(***************************************************************************)
Contexts == {"none", "nolifespan", "ok"}
DateSamples == {"", "2024-03-10", "2024-02-30", "2024-3-1"}
TimeSamples == {"", "14:30", "24:00", "9:5"}
Optional(S) == {None} \union {Some(x) : x \in S}
\* every list over S of length at most n
ListsUpTo(S, n) == UNION {[1..k -> S] : k \in 0..n}

SearchTransfersArgs ==
    [tool : {"search_transfers"},
     pickup_address : {"", "Airport"}, pickup_lat : {41}, pickup_lng : {29},
     dropoff_address : {"", "Hotel"}, dropoff_lat : {40}, dropoff_lng : {28},
     pickup_date : DateSamples, pickup_time : TimeSamples,
     adults : {0, 1}, children : {0}, infants : {0},
     round_trip : BOOLEAN,
     return_date : Optional(DateSamples), return_time : Optional(TimeSamples),
     currency : {"usd", "XXX"}, language : {"en"}, ctx : Contexts]

MakeReservationArgs ==
    [tool : {"make_reservation"},
     uuid : {"", "u-1"}, first_name : {"", "Ann"}, last_name : {"", "Lee"},
     email : {"", "ann@example.org"}, phone : {"", "+905550000"},
     country_code : {"", "TR"}, outbound_subroute_id : {0, 7},
     flight_number : {Some("TK1")}, terminal : {None}, notes : {Some("")},
     return_subroute_id : {None, Some(0), Some(9)},
     return_flight_number : {Some("")}, return_terminal : {Some("")},
     return_notes : {Some("")},
     passenger_names : Optional(ListsUpTo({"Ann Lee", "Bo Ray"}, MaxPassengers)),
     passenger_countries : Optional(ListsUpTo({"US", "tr"}, MaxPassengers)),
     ctx : Contexts]

ListReservationsArgs ==
    [tool : {"list_reservations"},
     query_type : {"createdate", "flightdate", "reservationnumber", "bogus", ""},
     start_date : Optional(DateSamples), end_date : Optional(DateSamples),
     reservation_number : Optional({0, 42, -1}), ctx : Contexts]

SearchPlacesArgs ==
    [tool : {"search_places"}, query : {"", "Sabiha"}, language : {"en", "tr"},
     ctx : Contexts]

GetPlaceDetailsArgs ==
    [tool : {"get_place_details"}, place_id : {"", "ChIJ1"}, language : {"en", "tr"},
     ctx : Contexts]

ToolArgs ==
    SearchTransfersArgs \union MakeReservationArgs \union ListReservationsArgs
        \union SearchPlacesArgs \union GetPlaceDetailsArgs

\* sample JSON bodies
OptionSample(id) ==
    JObj([carname |-> JStr("Vito"), pickup |-> JStr("14:30"), duration |-> JInt(45),
          price |-> JInt(60), kisihakki |-> JInt(6), bavulhakki |-> JInt(6),
          extraurunler |-> JArr(<< JObj([UrunTanimi |-> JStr("Child seat"),
                                         BirimFiyat |-> JInt(5)]) >>),
          routeid |-> JInt(3), subrouteid |-> JInt(id)])
TransferSuccess ==
    JObj([status |-> JStr("success"), uuid |-> JStr("u-1"), pickup |-> JStr("Airport"),
          dropoff |-> JStr("Hotel"), adult |-> JInt(1), child |-> JInt(0),
          infant |-> JInt(0), currencysembol |-> JStr("$"),
          ways |-> JArr(<< JObj([type |-> JStr("yon1"), from |-> JStr("Airport"),
                                 to |-> JStr("Hotel"), date |-> JStr("2024-03-10"),
                                 list |-> JArr(<<OptionSample(7), OptionSample(8)>>)]),
                           JObj([type |-> JStr("yon2"), from |-> JStr("Hotel"),
                                 to |-> JStr("Airport"), date |-> JStr("2024-03-12"),
                                 list |-> JArr(<<OptionSample(9)>>)]) >>)])
ReservationSuccess == JObj([status |-> JStr("success"), rezid |-> JInt(1001)])
ReservationListSuccess ==
    JObj([status |-> JStr("success"),
          list |-> JArr(<< JObj([reservationnumber |-> JInt(42),
                                 customername |-> JStr("Ann"),
                                 customersurname |-> JStr("Lee"),
                                 status |-> JStr("confirmed"),
                                 ways |-> JArr(<< JObj([pickupadres |-> JStr("Airport"),
                                                        returnadres |-> JStr("Hotel"),
                                                        flightnumber |-> JStr("TK1"),
                                                        terminal |-> JStr("1")]) >>),
                                 passangers |-> JArr(<< JObj([namesurname |-> JStr("Ann Lee"),
                                                              country |-> JStr("tr")]) >>)]) >>)])
EmptyListSuccess == JObj([status |-> JStr("success"), list |-> JArr(<< >>)])
PlacesSuccess ==
    JArr(<< JObj([place_id |-> JStr("ChIJ1"), description |-> JStr("Sabiha Gokcen")]),
            JObj([place_id |-> JStr("ChIJ2"), description |-> JStr("Sabiha Hotel")]) >>)
PlaceDetailsSuccess ==
    JObj([name |-> JStr("Sabiha Gokcen"), formatted_address |-> JStr("Pendik"),
          geometry |-> JObj([location |-> JObj([lat |-> JInt(41), lng |-> JInt(29)])]),
          types |-> JArr(<<JStr("airport"), JStr("point_of_interest")>>)])
BusinessFailures ==
    { JObj([status |-> JStr("error"), description |-> JStr("No cars available")]),
      JObj([status |-> JStr("error"), description |-> JStr("")]),
      JObj([status |-> JStr("error")]),
      JObj([description |-> JStr("No status")]),
      JObj([status |-> JInt(0), description |-> JNull]) }
JsonSamples ==
    BusinessFailures \union
    { TransferSuccess, ReservationSuccess, ReservationListSuccess, EmptyListSuccess,
      PlacesSuccess, PlaceDetailsSuccess, JArr(<< >>), EmptyObj, JNull, JStr("busy") }

Replies ==
    {TransportFailure, MalformedReply(200), HttpReply(500, JNull), HttpReply(201, EmptyObj),
     HttpReply(404, JObj([status |-> JStr("error"), description |-> JStr("Not found")]))}
    \union {HttpReply(200, j) : j \in JsonSamples}

(***************************************************************************)
(* The state.                                                              *)
(*   lifespan  where app_lifespan stands: pc is "init" before it starts,   *)
(*             "serving" at its yield, "exiting" in its finally block and  *)
(*             "exited" once that has run; fault tells whether the scope   *)
(*             was left by an exception                                    *)
(*   client    how many HTTP clients were constructed and how many closed  *)
(*   inv       the tool invocations: pc is "idle" before the call,         *)
(*             "posting" inside the client's post/get before the request   *)
(*             is on the wire, "awaiting" while the reply is awaited,      *)
(*             "replied" once it arrived, "done" when the tool has ended   *)
(*   fn        a function of utils.py called on its own: its name, its     *)
(*             argument and, once it has returned, what it returned        *)
(***************************************************************************)
VARIABLES lifespan, client, inv, fn
vars == <<lifespan, client, inv, fn>>

Inv == 1..NumInv
Idle ==
    [pc |-> "idle", args |-> [tool |-> "none"], calls |-> 0, request |-> None,
     reply |-> None, result |-> None]

\* no function of utils.py is being called on its own
NoCall == [name |-> "none", arg |-> None, out |-> None]

Init ==
    /\ lifespan = [pc |-> "init", fault |-> FALSE]
    /\ client = [created |-> 0, closed |-> 0]
    /\ inv = [i \in Inv |-> Idle]
    /\ fn = NoCall

(***************************************************************************)
(* server.py: app_lifespan.                                                *)
(***************************************************************************)
\* lines 38-40: construct the client, yield the AppContext
Startup ==
    /\ lifespan.pc = "init"
    /\ client' = [client EXCEPT !.created = @ + 1]
    /\ lifespan' = [lifespan EXCEPT !.pc = "serving"]
    /\ UNCHANGED <<inv, fn>>

\* where control goes when the scope is left at the yield: try/finally runs
\* the finally block whether the scope ends normally or by an exception
NoFinallyOnFault(fault) == IF fault THEN "exited" ELSE "exiting"
AfterYield(fault) == "exiting"

\* the runtime leaves the lifespan scope: normally, or by a fault or cancellation
Shutdown(fault) ==
    /\ lifespan.pc = "serving"
    /\ lifespan' = [pc |-> AfterYield(fault), fault |-> fault]
    /\ UNCHANGED <<client, inv, fn>>
ShutdownNormal == Shutdown(FALSE)
ShutdownFault == Shutdown(TRUE)

\* line 43: await client.close()
CloseClient ==
    /\ lifespan.pc = "exiting"
    /\ client' = [client EXCEPT !.closed = @ + 1]
    /\ lifespan' = [lifespan EXCEPT !.pc = "exited"]
    /\ UNCHANGED <<inv, fn>>

(***************************************************************************)
(* server.py and client.py: one tool invocation.                           *)
(***************************************************************************)
\* the call with the request prepared before the checks are looked at
CalledWithoutChecks(i, a) ==
    LET ctx == Guarded(a.tool, ContextFault(a.ctx))
    IN  IF ctx.text # "" THEN [inv[i] EXCEPT !.pc = "done", !.args = a, !.result = Some(ctx)]
        ELSE [inv[i] EXCEPT !.pc = "posting", !.args = a]

\* the tool is called with arguments a: the checks before the try block, then
\* the context lookup and the client method up to its post/get
Called(i, a) ==
    LET v == Validate(a)
        ctx == Guarded(a.tool, ContextFault(a.ctx))
    IN  IF v # "" THEN [inv[i] EXCEPT !.pc = "done", !.args = a, !.result = Some(Ret(v))]
        ELSE IF ctx.text # "" THEN [inv[i] EXCEPT !.pc = "done", !.args = a,
                                                  !.result = Some(ctx)]
        ELSE [inv[i] EXCEPT !.pc = "posting", !.args = a]

\* the runtime dispatches a tool call with arguments drawn from Args
CallTool(i, Args) ==
    /\ lifespan.pc = "serving"
    /\ inv[i].pc = "idle"
    /\ \E a \in Args : inv' = [inv EXCEPT ![i] = Called(i, a)]
    /\ UNCHANGED <<lifespan, client, fn>>

\* the payload the client method hands to post/get: its own local variable
PayloadOfOther(i) ==
    IF \E j \in Inv : j # i /\ inv[j].request # None
    THEN inv[CHOOSE j \in Inv : j # i /\ inv[j].request # None].request[1]
    ELSE RequestOf(inv[i].args)
PayloadOf(i) == RequestOf(inv[i].args)

\* a client that takes a request whether or not it has been closed
ClientAcceptsAlways(c) == TRUE
\* httpx.AsyncClient: once aclose() has run, post and get send nothing and raise
ClientAccepts(c) == c.closed = 0
ClosedClientError ==
    Raise("RuntimeError", "Cannot send a request, as the client has been closed.")

\* client.py: self.client.post / self.client.get puts the request on the wire,
\* or raises on a closed client and the tool's except clause returns the text
ClientSend(i) ==
    /\ inv[i].pc = "posting"
    /\ inv' = [inv EXCEPT ![i] =
                IF ClientAccepts(client)
                THEN [@ EXCEPT !.pc = "awaiting", !.calls = @ + 1,
                               !.request = Some(PayloadOf(i))]
                ELSE [@ EXCEPT !.pc = "done",
                               !.result = Some(Guarded(inv[i].args.tool,
                                                       ClosedClientError))]]
    /\ UNCHANGED <<lifespan, client, fn>>

\* the upstream service answers, or the transport fails
UpstreamReply(i, Rs) ==
    /\ inv[i].pc = "awaiting"
    /\ \E r \in Rs : inv' = [inv EXCEPT ![i] = [@ EXCEPT !.pc = "replied", !.reply = Some(r)]]
    /\ UNCHANGED <<lifespan, client, fn>>

\* where the invocation goes once the await has ended: raise_for_status raises
\* at once and nothing loops back to the post
RetryOnFailure(outcome) == IF outcome.kind = "raise" THEN "posting" ELSE "done"
PcAfterAwait(outcome) == "done"

\* the coroutine resumes: raise_for_status, json(), the formatter, the except clause
Resume(i) ==
    /\ inv[i].pc = "replied"
    /\ LET got == ClientReceive(inv[i].reply[1])
       IN  inv' = [inv EXCEPT ![i] =
                IF PcAfterAwait(got) = "done"
                THEN [@ EXCEPT !.pc = "done",
                               !.result = Some(AfterAwait(inv[i].args.tool, inv[i].reply[1]))]
                ELSE [@ EXCEPT !.pc = PcAfterAwait(got), !.reply = None]]
    /\ UNCHANGED <<lifespan, client, fn>>

(***************************************************************************)
(* Spec: the server starts and the runtime dispatches one tool call.       *)
(***************************************************************************)
Next ==
    \/ Startup
    \/ CallTool(1, ToolArgs)
    \/ ClientSend(1)
    \/ UpstreamReply(1, Replies)
    \/ Resume(1)

Spec == Init /\ [][Next]_vars

(***************************************************************************)
(* ServerSpec: the whole life of the server, with the runtime dispatching  *)
(* tool calls concurrently while the lifespan scope is open.  Once the     *)
(* scope is left the finally block is run by the event loop, hence the     *)
(* weak fairness of CloseClient.                                           *)
(***************************************************************************)
ServerArgs ==
    [tool : {"search_places"}, query : {"", "Sabiha"}, language : {"en"}, ctx : {"ok"}]
    \union [tool : {"get_place_details"}, place_id : {"ChIJ1"}, language : {"en"},
            ctx : {"ok", "none"}]
    \union [tool : {"list_reservations"}, query_type : {"reservationnumber"},
            start_date : {None}, end_date : {None}, reservation_number : {Some(42)},
            ctx : {"ok"}]
ServerReplies ==
    {TransportFailure, HttpReply(200, PlacesSuccess), HttpReply(200, PlaceDetailsSuccess),
     HttpReply(200, JObj([status |-> JStr("error"), description |-> JStr("No cars available")]))}

ServerNext ==
    \/ Startup
    \/ ShutdownNormal
    \/ ShutdownFault
    \/ CloseClient
    \/ \E i \in Inv :
          \/ CallTool(i, ServerArgs)
          \/ ClientSend(i)
          \/ UpstreamReply(i, ServerReplies)
          \/ Resume(i)

ServerSpec == Init /\ [][ServerNext]_vars /\ WF_vars(CloseClient)

(***************************************************************************)
(* UtilsSpec: a function of utils.py is called on its own with an argument *)
(* drawn from a bounded set, and returns.                                  *)
(***************************************************************************)
\* date strings: a year, a month and a day, padded or not, in or out of range
DateStrings ==
    {"", "2024-02", "20240229", "2024-02-29-01", "abcd-ef-gh"} \union
    { y \o sep \o m \o sep \o d \o tail :
        y \in {"2024", "2023", "1900", "2000", "0000", "24"},
        sep \in {"-", "/"},
        m \in {"01", "02", "04", "12", "13", "00", "2", "4"},
        d \in {"01", "28", "29", "30", "31", "32", "00", "1", "5", " 5"},
        tail \in {"", "x"} }

\* time strings: an hour and a minute, padded or not, in or out of range
TimeStrings ==
    { h \o sep \o m \o tail :
        h \in {"", "00", "09", "14", "23", "24", "25", "0", "9", "ab"},
        sep \in {":", ".", ""},
        m \in {"", "00", "05", "59", "60", "0", "5", "7x"},
        tail \in {"", ":00", " "} }

\* well-formed success responses of the five kinds, of every size up to MaxItems
Shapes == ListsUpTo(0..MaxItems, MaxItems)
LegSample(w, n, base) ==
    JObj([type |-> JStr(IF w = 1 THEN "yon1" ELSE "yon2"), from |-> JStr("Airport"),
          to |-> JStr("Hotel"), date |-> JStr("2024-03-10"),
          list |-> JArr([k \in 1..n |-> OptionSample(base + 10 * w + k)])])
TransferResponses ==
    { JObj([status |-> JStr("success"), uuid |-> JStr(u), pickup |-> JStr("Airport"),
            dropoff |-> JStr("Hotel"), adult |-> JInt(1), child |-> JInt(0),
            infant |-> JInt(0), currencysembol |-> JStr("$"),
            ways |-> JArr([w \in 1..Len(shape) |-> LegSample(w, shape[w], base)])]) :
        u \in {"u-1", "3f2a-77c0"}, base \in {7100, 880}, shape \in Shapes }
ReservationResponses ==
    { JObj([status |-> JStr("success"), rezid |-> id]) : id \in {JInt(1001), JStr("R-77")} }
RecordSample(number, n) ==
    JObj([reservationnumber |-> JInt(number), customername |-> JStr("Ann"),
          customersurname |-> JStr("Lee"), status |-> JStr("confirmed"),
          ways |-> JArr([j \in 1..n |->
                            JObj([pickupadres |-> JStr("Airport"),
                                  returnadres |-> JStr("Hotel"),
                                  flightnumber |-> JStr(IF j = 1 THEN "TK1" ELSE ""),
                                  terminal |-> JStr("1")])]),
          passangers |-> JArr([k \in 1..n |->
                                  JObj([namesurname |-> JStr("Ann Lee"),
                                        country |-> JStr("tr")])])])
ReservationListResponses ==
    { JObj([status |-> JStr("success"),
            list |-> JArr([i \in 1..Len(shape) |-> RecordSample(base + i, shape[i])])]) :
        base \in {9000, 40}, shape \in Shapes }
PlacesResponses ==
    { JArr([i \in 1..n |-> JObj([place_id |-> JStr(prefix \o ToString(i)),
                                 description |-> JStr("Sabiha Gokcen")])]) :
        prefix \in {"ChIJ", "pl-"}, n \in 0..MaxItems }
PlaceDetailsResponses ==
    { JObj([name |-> JStr("Sabiha Gokcen"), formatted_address |-> JStr("Pendik"),
            geometry |-> JObj([location |-> JObj([lat |-> JInt(41), lng |-> JInt(29)])]),
            types |-> JArr([k \in 1..n |-> JStr("airport")])]) : n \in 0..MaxItems }

Calling(name, Args) == {[name |-> name, arg |-> a, out |-> None] : a \in Args}

UtilsInit ==
    /\ lifespan = [pc |-> "init", fault |-> FALSE]
    /\ client = [created |-> 0, closed |-> 0]
    /\ inv = [i \in Inv |-> Idle]
    /\ \/ fn \in Calling("validate_date", DateStrings)
       \/ fn \in Calling("validate_time", TimeStrings)
       \/ fn \in Calling("format_transfer_results", TransferResponses)
       \/ fn \in Calling("format_reservation_results", ReservationResponses)
       \/ fn \in Calling("format_reservation_list", ReservationListResponses)
       \/ fn \in Calling("format_places_results", PlacesResponses)
       \/ fn \in Calling("format_place_details", PlaceDetailsResponses)

\* the called function runs to its return
Returns(name, value) ==
    /\ fn.name = name
    /\ fn.out = None
    /\ fn' = [fn EXCEPT !.out = Some(value)]
    /\ UNCHANGED <<lifespan, client, inv>>

CallValidateDate == Returns("validate_date", validate_date(fn.arg))
CallValidateTime == Returns("validate_time", validate_time(fn.arg))
CallFormatTransferResults ==
    Returns("format_transfer_results", format_transfer_results(fn.arg))
CallFormatReservationResults ==
    Returns("format_reservation_results", format_reservation_results(fn.arg))
CallFormatReservationList ==
    Returns("format_reservation_list", format_reservation_list(fn.arg))
CallFormatPlacesResults ==
    Returns("format_places_results", format_places_results(fn.arg))
CallFormatPlaceDetails ==
    Returns("format_place_details", format_place_details(fn.arg))

UtilsNext ==
    \/ CallValidateDate
    \/ CallValidateTime
    \/ CallFormatTransferResults
    \/ CallFormatReservationResults
    \/ CallFormatReservationList
    \/ CallFormatPlacesResults
    \/ CallFormatPlaceDetails

UtilsSpec == UtilsInit /\ [][UtilsNext]_vars

(***************************************************************************)
(* Vocabulary of the properties.                                           *)
(***************************************************************************)
Tool(i) == inv[i].args.tool
IsDone(i) == inv[i].pc = "done"
Result(i) == inv[i].result[1]
Sent(i) == inv[i].request # None
Body(i) == inv[i].request[1].body
\* what the except clause of the tool makes of an exception's message
CaughtText(tool, msg) == "Error " \o ActionOf(tool) \o ": " \o msg
OneLine(text) == \A k \in 1..Len(text) : At(text, k) # "\n"
IsValidationText(r) == r.kind = "return" /\ StartsWith(r.text, "Error: ") /\ OneLine(r.text)

\* C1: a tool that returns the text of a failed validation check has issued no
\* HTTP request, and a request is issued only once every check has passed.
C1_ValidationBeforeHttp ==
    \A i \in Inv :
        /\ (inv[i].calls > 0 \/ inv[i].pc \in {"posting", "awaiting", "replied"})
              => Validate(inv[i].args) = ""
        /\ (inv[i].pc # "idle" /\ Validate(inv[i].args) # "")
              => /\ IsDone(i) /\ inv[i].calls = 0 /\ ~Sent(i)
                 /\ Result(i) = Ret(Validate(inv[i].args))
                 /\ IsValidationText(Result(i))
C1_Witness ==
    /\ IsDone(1) /\ Tool(1) = "search_transfers" /\ inv[1].args.pickup_address = ""
    /\ Result(1) = Ret("Error: Pickup and dropoff addresses are required")
    /\ inv[1].calls = 0

\* C2: every ended invocation has returned a text, never raised; a failure of
\* the upstream call, of the JSON decoding, of the formatter or of the context
\* lookup is returned as "Error <action>: <message>".
C2_NoFaultEscapes ==
    \A i \in Inv :
        IsDone(i) =>
            /\ Result(i).kind = "return"
            /\ (Validate(inv[i].args) = "" /\ inv[i].args.ctx # "ok")
                  => Result(i).text = CaughtText(Tool(i), ContextFault(inv[i].args.ctx).text)
            /\ inv[i].reply # None =>
                  LET got == ClientReceive(inv[i].reply[1])
                  IN  /\ got.kind = "raise"
                            => Result(i).text = CaughtText(Tool(i), got.text)
                      /\ (got.kind = "value" /\ Format(Tool(i), got.value).kind = "raise")
                            => Result(i).text
                                   = CaughtText(Tool(i), Format(Tool(i), got.value).text)
C2_Witness ==
    /\ IsDone(1) /\ Tool(1) = "search_transfers"
    /\ inv[1].reply = Some(HttpReply(200, JArr(<< >>)))
    /\ Result(1) = Ret("Error searching for transfers: 'list' object has no attribute 'get'")

RequiredFieldsGiven(a) ==
    /\ a.uuid # "" /\ a.first_name # "" /\ a.last_name # "" /\ a.email # ""
    /\ a.phone # "" /\ a.country_code # "" /\ a.outbound_subroute_id # 0

\* C3: make_reservation given both passenger lists, of different lengths (one
\* may be empty), returns the mismatch error and issues no HTTP request.
C3_MismatchRejected ==
    \A i \in Inv :
        LET a == inv[i].args
        IN  (/\ Tool(i) = "make_reservation" /\ RequiredFieldsGiven(a) /\ a.ctx = "ok"
             /\ a.passenger_names # None /\ a.passenger_countries # None
             /\ Len(a.passenger_names[1]) # Len(a.passenger_countries[1]))
            => /\ inv[i].calls = 0 /\ ~Sent(i)
               /\ IsDone(i)
                     => Result(i) = Ret("Error: Number of passenger names and countries must match")

DefaultPassenger(a) ==
    [name |-> a.first_name \o " " \o a.last_name, country |-> Lower(a.country_code)]
PairedPassengers(a) ==
    [k \in 1..Len(a.passenger_names[1]) |->
        [name |-> a.passenger_names[1][k], country |-> Lower(a.passenger_countries[1][k])]]

EarlierChecksPass(a) ==
    /\ a.pickup_address # "" /\ a.dropoff_address # "" /\ a.adults >= 1
    /\ validate_date(a.pickup_date) /\ validate_time(a.pickup_time)

ListQueryAcceptable(a) ==
    /\ a.query_type \in {"createdate", "flightdate", "reservationnumber"}
    /\ a.query_type \in {"createdate", "flightdate"}
          => /\ a.start_date # None /\ a.end_date # None
             /\ a.start_date[1] # "" /\ a.end_date[1] # ""
             /\ validate_date(a.start_date[1]) /\ validate_date(a.end_date[1])
    /\ a.query_type = "reservationnumber"
          => a.reservation_number # None /\ a.reservation_number[1] # 0
StatusErrorText(value) ==
    IF "description" \in DOMAIN value.o
    THEN "Error: " \o PyStr(value.o["description"])
    ELSE "Error: Unknown error occurred"
\* the invocation got a JSON object whose status is not "success"
GotFailureObject(i) ==
    /\ IsDone(i) /\ inv[i].reply # None
    /\ ClientReceive(inv[i].reply[1]).kind = "value"
    /\ inv[i].reply[1].value.t = "obj"
    /\ GetN(inv[i].reply[1].value, "status") # JStr("success")
StatusTools == {"search_transfers", "make_reservation", "list_reservations"}

\* C7 as stated: each of the five formatters turns a response whose status is
\* not "success" into the single line "Error: <description>", or
\* "Error: Unknown error occurred" without a description.
C7_FiveFormattersCheckStatus ==
    \A i \in Inv :
        GotFailureObject(i) => Result(i) = Ret(StatusErrorText(inv[i].reply[1].value))

\* C7 amended: the three formatters of transfer results, reservation
\* confirmation and reservation list do so (a description is rendered with
\* str(), a null one as "None"); the formatter of place details does not look
\* at status and renders its "Location Details:" lines.
C7_StatusFormatters ==
    \A i \in Inv :
        GotFailureObject(i) =>
            /\ Tool(i) \in StatusTools
                  => Result(i) = Ret(StatusErrorText(inv[i].reply[1].value))
            /\ Tool(i) = "get_place_details"
                  => /\ Result(i).kind = "return"
                     /\ StartsWith(Result(i).text, "Location Details:\nName: ")
C7_Witness ==
    /\ IsDone(1) /\ Tool(1) = "search_transfers"
    /\ inv[1].reply = Some(HttpReply(200, JObj([status |-> JStr("error"),
                                               description |-> JStr("No cars available")])))
    /\ Result(1) = Ret("Error: No cars available")

\* C8: an invocation issues at most one HTTP request; after a failed status or
\* a transport failure it issues no further request and ends with the failure
\* as text.
C8_AtMostOneRequest ==
    \A i \in Inv :
        /\ inv[i].calls <= 1
        /\ inv[i].pc \in {"awaiting", "replied"} => inv[i].calls = 1
        /\ (IsDone(i) /\ inv[i].reply # None /\ ClientReceive(inv[i].reply[1]).kind = "raise")
              => /\ inv[i].calls = 1
                 /\ Result(i) = Ret(CaughtText(Tool(i), ClientReceive(inv[i].reply[1]).text))
C8_Witness ==
    /\ IsDone(1) /\ Tool(1) = "list_reservations" /\ inv[1].calls = 1
    /\ inv[1].reply = Some(HttpReply(500, JNull))
    /\ Result(1) = Ret("Error listing reservations: Error response 500")

\* C9: one HTTP client is created at startup and it is closed exactly once, at
\* shutdown: never before the lifespan scope is left, and always eventually
\* once it is left, normally or by a fault.
C9_LifecycleState ==
    /\ client.created <= 1 /\ client.closed <= 1
    /\ lifespan.pc = "init" <=> client.created = 0
    /\ lifespan.pc = "exited" <=> client.closed = 1
C9_ClientLifecycle ==
    /\ []C9_LifecycleState
    /\ (lifespan.pc \notin {"init", "serving"}) ~> (client.closed = 1)
C9_Witness ==
    /\ lifespan = [pc |-> "exited", fault |-> TRUE]
    /\ client = [created |-> 1, closed |-> 1]

\* what a tool called alone with arguments a returns when the upstream's reply
\* to its request is reply (None if it never got one: without a failed check
\* or context, that is a post refused by the client closed at shutdown)
Alone(a, reply) ==
    IF Validate(a) # "" THEN Ret(Validate(a))
    ELSE IF a.ctx # "ok" THEN Ret(CaughtText(a.tool, ContextFault(a.ctx).text))
    ELSE IF reply = None THEN Ret(CaughtText(a.tool, ClosedClientError.text))
    ELSE AfterAwait(a.tool, reply[1])

\* C10: under every interleaving of concurrent invocations, the request an
\* invocation sends is the one its own arguments determine, the text it
\* returns is the one its own arguments and its own reply determine, and a step
\* of one invocation changes neither another invocation nor the client.
C10_OwnRequestAndResult ==
    \A i \in Inv :
        /\ Sent(i) => inv[i].request[1] = RequestOf(inv[i].args)
        /\ IsDone(i) => Result(i) = Alone(inv[i].args, inv[i].reply)
C10_StepIsLocal ==
    \A i \in Inv :
        inv'[i] # inv[i] =>
            /\ \A j \in Inv \ {i} : inv'[j] = inv[j]
            /\ client' = client /\ lifespan' = lifespan
            /\ inv[i].pc # "idle" => inv'[i].args = inv[i].args
            /\ Sent(i) => inv'[i].request = inv[i].request
            /\ inv[i].reply # None => inv'[i].reply = inv[i].reply
C10_NoInterference == []C10_OwnRequestAndResult /\ [][C10_StepIsLocal]_vars
C10_Witness ==
    /\ inv[1].pc = "awaiting" /\ Tool(1) = "search_places"
    /\ inv[1].request = Some(RequestOf(inv[1].args))
    /\ IsDone(2) /\ Tool(2) = "get_place_details" /\ inv[2].calls = 1
    /\ inv[2].reply = Some(TransportFailure)
    /\ Result(2) = Ret("Error getting place details: All connection attempts failed")

(***************************************************************************)
(* C11: validate_date(s) returns true iff s is empty or s is an exact      *)
(* calendar date in YYYY-MM-DD form with a four-digit year, a two-digit    *)
(* month 01-12 and a two-digit day valid for that month and year; every    *)
(* other string, the non-zero-padded forms included, yields false.         *)
(***************************************************************************)
Returned(name) == fn.name = name /\ fn.out # None

\* s is YYYY-MM-DD, all ten characters, naming a day of the calendar
IsExactDate(s) ==
    /\ Len(s) = 10
    /\ \A i \in {1, 2, 3, 4, 6, 7, 9, 10} : IsDigit(At(s, i))
    /\ At(s, 5) = "-" /\ At(s, 8) = "-"
    /\ LET y == 1000 * DigitVal(At(s, 1)) + 100 * DigitVal(At(s, 2))
                + 10 * DigitVal(At(s, 3)) + DigitVal(At(s, 4))
           m == 10 * DigitVal(At(s, 6)) + DigitVal(At(s, 7))
           d == 10 * DigitVal(At(s, 9)) + DigitVal(At(s, 10))
       IN  y >= 1 /\ m \in 1..12 /\ d \in 1..DaysInMonth(y, m)

C11_ValidateDateExact ==
    Returned("validate_date") =>
        fn.out[1] = (fn.arg = "" \/ IsExactDate(fn.arg))

(***************************************************************************)
(* C12: validate_time(s) returns true iff s is empty or s has the form     *)
(* HH:MM with HH in 00-23 and MM in 00-59; "9:5" and every other string    *)
(* yield false.                                                            *)
(***************************************************************************)
\* s is HH:MM, all five characters, naming a minute of the day
IsExactTime(s) ==
    /\ Len(s) = 5
    /\ \A i \in {1, 2, 4, 5} : IsDigit(At(s, i))
    /\ At(s, 3) = ":"
    /\ 10 * DigitVal(At(s, 1)) + DigitVal(At(s, 2)) \in 0..23
    /\ 10 * DigitVal(At(s, 4)) + DigitVal(At(s, 5)) \in 0..59

C12_ValidateTimeExact ==
    Returned("validate_time") =>
        fn.out[1] = (fn.arg = "" \/ IsExactTime(fn.arg))


(***************************************************************************)
(* C13: for a well-formed success response of each of the five kinds, the  *)
(* formatter returns a text that contains verbatim every identifier of the *)
(* response a follow-up call needs: the uuid and every option's subrouteid *)
(* (transfer search), the rezid (reservation), every record's              *)
(* reservationnumber (reservation list), every candidate's place_id (place *)
(* search), whatever the number of legs, options, records and candidates.  *)
(***************************************************************************)
Formatters ==
    {"format_transfer_results", "format_reservation_results", "format_reservation_list",
     "format_places_results", "format_place_details"}

\* sub occurs in text
Contains(text, sub) ==
    \E i \in 1..(Len(text) - Len(sub) + 1) : SubSeq(text, i, i + Len(sub) - 1) = sub

\* the identifiers of response r, as texts
Identifiers(name, r) ==
    CASE name = "format_transfer_results" ->
            {PyStr(r.o.uuid)} \union
            { PyStr(r.o.ways.a[w].o.list.a[k].o.subrouteid) :
                <<w, k>> \in { p \in (1..Len(r.o.ways.a)) \X (1..MaxItems) :
                                 p[2] <= Len(r.o.ways.a[p[1]].o.list.a) } }
      [] name = "format_reservation_results" -> {PyStr(r.o.rezid)}
      [] name = "format_reservation_list" ->
            { PyStr(r.o.list.a[i].o.reservationnumber) : i \in 1..Len(r.o.list.a) }
      [] name = "format_places_results" ->
            { PyStr(r.a[i].o.place_id) : i \in 1..Len(r.a) }
      [] name = "format_place_details" -> {}

C13_IdentifiersPreserved ==
    (fn.name \in Formatters /\ fn.out # None) =>
        /\ fn.out[1].kind = "return"
        /\ \A id \in Identifiers(fn.name, fn.arg) : Contains(fn.out[1].text, id)

\* a search of two legs with two options each has been rendered
C13_Witness ==
    /\ Returned("format_transfer_results")
    /\ Cardinality(Identifiers(fn.name, fn.arg)) = 5
    /\ \A id \in Identifiers(fn.name, fn.arg) : Contains(fn.out[1].text, id)

(***************************************************************************)
(* C14: the /query request of search_transfers carries requesttype 2 iff   *)
(* round_trip is true and 1 otherwise; when round_trip is false its        *)
(* dropoffdate and dropofftime are the empty string whatever return_date   *)
(* and return_time the caller supplied, which are neither validated nor    *)
(* forwarded; when round_trip is true they are the supplied return_date    *)
(* and return_time unchanged.                                              *)
(***************************************************************************)
C14_RequestShaping ==
    \A i \in Inv :
        LET a == inv[i].args
        IN  Tool(i) = "search_transfers" =>
              /\ Sent(i) =>
                    /\ inv[i].request[1].path = "/query"
                    /\ (Body(i).requesttype = 2) = a.round_trip
                    /\ (Body(i).requesttype = 1) = ~a.round_trip
                    /\ ~a.round_trip =>
                          Body(i).dropoffdate = Some("") /\ Body(i).dropofftime = Some("")
                    /\ a.round_trip =>
                          /\ Body(i).dropoffdate = a.return_date
                          /\ Body(i).dropofftime = a.return_time
              /\ (~a.round_trip /\ EarlierChecksPass(a) /\ IsDone(i) /\ inv[i].calls = 0)
                    => ~IsValidationText(Result(i))

\* a one-way search given a return date that is no date and a return time that
\* is no time has sent its request, with both fields empty
C14_Witness ==
    /\ Tool(1) = "search_transfers" /\ ~inv[1].args.round_trip
    /\ inv[1].args.return_date = Some("2024-02-30")
    /\ inv[1].args.return_time = Some("24:00")
    /\ Sent(1) /\ inv[1].calls = 1
    /\ Body(1).requesttype = 1
    /\ Body(1).dropoffdate = Some("") /\ Body(1).dropofftime = Some("")

(***************************************************************************)
(* C15: no HTTP request is issued on the shared client after it has been   *)
(* closed: in every interleaving of tool invocations with the shutdown of  *)
(* the server, invocations in flight or dispatched when the lifespan scope *)
(* exits included, every step that puts a request on the wire is taken     *)
(* while the client is open, and a closed client stays closed.             *)
(***************************************************************************)
C15_SendsWhileOpen ==
    /\ client'.closed >= client.closed
    /\ \A i \in Inv :
          (inv'[i].calls > inv[i].calls \/ (~Sent(i) /\ inv'[i].request # None))
              => client.closed = 0 /\ client'.closed = 0
C16_PickupWellFormed ==
    \A i \in Inv :
        Tool(i) = "search_transfers" =>
            /\ Sent(i) =>
                  /\ Body(i).pickupdate # "" /\ IsExactDate(Body(i).pickupdate)
                  /\ Body(i).pickuptime # "" /\ IsExactTime(Body(i).pickuptime)
            /\ (inv[i].args.pickup_date = "" \/ inv[i].args.pickup_time = "")
                  => inv[i].calls = 0 /\ ~Sent(i)

====
